---- MODULE Spec2Model ----
(***************************************************************************)
(* Model of the pipeline stage machinery of anar/pipeline/stages.py:       *)
(* StageManager (register_stage, get_execution_order, execute_stages) and  *)
(* StageExecutor.execute.                                                  *)
(*                                                                         *)
(* A Python dict is an insertion-ordered map.  self.stages is modelled as  *)
(* the sequence of the stored PipelineStage records in key-insertion order *)
(* (the key is always stage.name); self.dependencies as a function whose   *)
(* DOMAIN is the set of its keys.                                          *)
(*                                                                         *)
(* The callables of a stage are opaque: a call either raises or returns a  *)
(* term <<function, stage, arguments...>> that records what it was applied *)
(* to; the validator returns a verdict chosen by the environment.          *)
(***************************************************************************)
EXTENDS Integers, Sequences, FiniteSets, TLC

VARIABLES
    stages,        \* self.stages: Seq of PipelineStage records, insertion order
    dependencies,  \* self.dependencies: function name -> Seq of names
    pc,            \* control position of the call in progress
    caller,        \* "none" | "get_execution_order" | "execute_stages"
    visited,       \* get_execution_order: visited (set)
    order,         \* get_execution_order: order (list)
    stack,         \* recursion stack of visit(): Seq of <<stage_name, next dep index>>
    iter,          \* position of the iterator of `for stage_name in self.stages`
    expanded,      \* history: how often visit() passed its visited-check, per name
    context,       \* execute_stages: context
    result,        \* execute_stages: result
    runIdx,        \* execute_stages: position in the execution order
    ran,           \* history: stages whose executor was entered, in sequence
    exData,        \* StageExecutor.execute: data
    exResult,      \* StageExecutor.execute: result
    exLog,         \* history: calls made by the current execute(), in sequence
    verdict,       \* history: what the validator returned in the current execute()
    ret,           \* value returned to the caller by the last finished call
    raised,        \* exception delivered to the caller by the last finished call
    lastOrder,     \* history: what the previous get_execution_order returned, None
                   \* once the registry was written or another call was made
    lastRegistration, \* history, kept in SpecRegister: the arguments of the
                   \* register_stage call just made and whether the name was
                   \* registered before it; empty otherwise
    \* ---- EnhancedPipeline.process_batch (enhanced_pipeline.py)
    texts,         \* process_batch: texts
    batch_size,    \* process_batch: batch_size
    parallel,      \* process_batch: parallel
    checkpoint_dir,\* self.checkpoint_dir: None or a directory
    bpc,           \* control position of process_batch
    batches,       \* process_batch: batches
    batch_idx,     \* process_batch: batch_idx of the current loop iteration
    results,       \* process_batch: results
    batch_results, \* process_batch: batch_results
    tasks,         \* the process_text call of each text: pending, running, done
                   \* or raised
    files,         \* the checkpoint files: function batch index -> content
    bret,          \* value process_batch returned
    braised,       \* exception that left process_batch
    started,       \* history: the texts whose process_text was started, in sequence
    saved,         \* history: the batch indices whose checkpoint was written, in sequence
    loadIdx,       \* _load_checkpoint: batch_idx of the call just made, -1 if none
    loadRet,       \* _load_checkpoint: what that call returned
    resume_from,   \* the resume point a caller hands to process_batch, -1 if none
    \* ---- ProcessingPipeline.process_text (processing_pipeline.py)
    ptext,         \* process_text: text, a list of character classes
    ppc,           \* control position of process_text
    pval,          \* the value ArabicProcessor.process_text returned
    pexc,          \* the exception being handled
    pret,          \* value process_text returned
    praised        \* exception that left process_text

stageVars == <<stages, dependencies, pc, caller, visited, order, stack, iter,
               expanded, context, result, runIdx, ran, exData, exResult, exLog,
               verdict, ret, raised, lastOrder, lastRegistration>>

batchVars == <<texts, batch_size, parallel, checkpoint_dir, bpc, batches, batch_idx,
               results, batch_results, tasks, files, bret, braised, started, saved,
               loadIdx, loadRet, resume_from>>

textVars == <<ptext, ppc, pval, pexc, pret, praised>>

vars == <<stageVars, batchVars, textVars>>

orderVars == <<visited, order, stack, iter, expanded>>
runVars == <<context, result, runIdx, ran>>
exVars == <<exData, exResult, exLog, verdict>>

\* ---------------------------------------------------------------- bounds
\* Longest dependency list passed to one register_stage call.
MaxDeps == 2
\* Most dependency entries held by self.dependencies in total, in SpecOrder.
MaxEdges == 3
\* The same, in Spec (where every registry is also run).
MaxRunEdges == 2
\* The same, in SpecRegister (where every call is recorded).
MaxRegisterEdges == 1
\* Longest text handed to ProcessingPipeline.process_text, in SpecText.
MaxTextLen == 4
\* Longest list of texts handed to process_batch, in SpecBatch.
MaxInputs == 7
\* Largest batch_size handed to process_batch, in SpecBatch.
MaxBatchSize == 3

\* Stage names used by the callers.
Names == {"A", "B", "C"}

\* The input handed to execute_stages, and the contexts (None is the default).
Input == <<"input">>
Contexts == {"ctx"}

None == <<"None">>
NoError == <<>>

\* ---------------------------------------------------------------- inputs
RECURSIVE ListsOfLen(_)
\* Lists of n distinct stage names.
ListsOfLen(n) ==
    IF n = 0 THEN {<<>>}
    ELSE {Append(q, x) : q \in ListsOfLen(n - 1), x \in Names} \
         {Append(q, q[i]) : q \in ListsOfLen(n - 1), i \in 1..(n - 1)}

\* The `dependencies` arguments of register_stage: None (the default), or a list.
DepLists == {None} \cup UNION {ListsOfLen(n) : n \in 0..MaxDeps}

\* The PipelineStage records handed to register_stage.  processor and validator
\* are always present; recovery is Optional.
PipelineStage == [name : Names, recovery : BOOLEAN]

\* ---------------------------------------------------------------- dict helpers
KeysMutReversed(st) == [i \in 1..Len(st) |-> st[Len(st) + 1 - i].name]

\* list(self.stages): the keys in insertion order.
Keys(st) == [i \in 1..Len(st) |-> st[i].name]

\* `name in self.stages`
Registered(st) == {st[i].name : i \in 1..Len(st)}

\* self.stages[name]
StageOf(st, name) == st[CHOOSE i \in 1..Len(st) : st[i].name = name]

\* self.stages[stage.name] = stage: a new key goes last, an existing key keeps
\* its position and gets the new value.
DictSet(st, stage) ==
    IF stage.name \in Registered(st)
    THEN [i \in 1..Len(st) |-> IF st[i].name = stage.name THEN stage ELSE st[i]]
    ELSE Append(st, stage)

\* self.dependencies.get(stage_name, [])
DepsGet(deps, name) == IF name \in DOMAIN deps THEN deps[name] ELSE <<>>

\* self.dependencies[name] = value
DepsSet(deps, name, value) ==
    [n \in (DOMAIN deps) \cup {name} |-> IF n = name THEN value ELSE deps[n]]

\* Python truthiness of the `dependencies` argument: None and [] are falsy.
TruthyMutNotNone(d) == d # None

Truthy(d) == d # None /\ d # <<>>

RECURSIVE SumLen(_, _)
SumLen(deps, S) ==
    IF S = {} THEN 0
    ELSE LET n == CHOOSE x \in S : TRUE
         IN Len(deps[n]) + SumLen(deps, S \ {n})

\* Number of dependency entries held by a dependencies dict.
Edges(deps) == SumLen(deps, DOMAIN deps)

\* ---------------------------------------------------------------- opaque callables
\* stage.processor(data), when it returns.
Processor(name, data) == <<"processor", name, data>>

\* stage.recovery(result, context), when it returns.
Recovery(name, res, ctx) == <<"recovery", name, res, ctx>>

PipelineStageErrorMutNoName(name, cause) == <<"PipelineStageError", "", cause>>

\* PipelineStageError(f"Stage {name} failed: {str(e)}")
PipelineStageError(name, cause) == <<"PipelineStageError", name, cause>>

\* ValueError(f"Unknown dependency: {dep}")
UnknownDependency(dep) == <<"ValueError", "Unknown dependency", dep>>

\* ---------------------------------------------------------------- initial state
\* The locals of process_batch before the call, the empty checkpoint directory
\* and the empty histories.
NoBatchLocals ==
    /\ batches = <<>>
    /\ batch_idx = 0
    /\ results = <<>>
    /\ batch_results = <<>>
    /\ tasks = <<>>
    /\ files = <<>>
    /\ bret = None
    /\ braised = NoError
    /\ started = <<>>
    /\ saved = <<>>
    /\ loadIdx = -1
    /\ loadRet = None

\* No ProcessingPipeline is in use.
NoText ==
    /\ ptext = <<>>
    /\ ppc = "none"
    /\ pval = None
    /\ pexc = NoError
    /\ pret = None
    /\ praised = NoError

\* No EnhancedPipeline is in use.
NoBatch ==
    /\ texts = <<>>
    /\ batch_size = 5
    /\ parallel = TRUE
    /\ checkpoint_dir = None
    /\ resume_from = -1
    /\ bpc = "none"
    /\ NoBatchLocals

\* A StageManager right after construction, no call made.
NoStages ==
    /\ stages = <<>>
    /\ dependencies = <<>>
    /\ pc = "idle"
    /\ caller = "none"
    /\ visited = {}
    /\ order = <<>>
    /\ stack = <<>>
    /\ iter = 1
    /\ expanded = [n \in Names |-> 0]
    /\ context = "None"
    /\ result = None
    /\ runIdx = 1
    /\ ran = <<>>
    /\ exData = None
    /\ exResult = None
    /\ exLog = <<>>
    /\ verdict = "none"
    /\ ret = None
    /\ raised = NoError
    /\ lastOrder = None
    /\ lastRegistration = <<>>

Init == NoStages /\ NoBatch /\ NoText

\* The locals of finished calls are gone when the next call starts.
ClearOrder ==
    /\ visited' = {}
    /\ order' = <<>>
    /\ stack' = <<>>
    /\ iter' = 1
    /\ expanded' = [n \in Names |-> 0]

ClearRun ==
    /\ context' = "None"
    /\ result' = None
    /\ runIdx' = 1
    /\ ran' = <<>>

ClearExecutor ==
    /\ exData' = None
    /\ exResult' = None
    /\ exLog' = <<>>
    /\ verdict' = "none"

\* ---------------------------------------------------------------- register_stage
\* StageManager.register_stage(stage, dependencies)
register_stage(stage, deps) ==
    /\ pc = "idle"
    /\ stages' = DictSet(stages, stage)
    /\ dependencies' = IF Truthy(deps)
                       THEN DepsSet(dependencies, stage.name, deps)
                       ELSE dependencies
    /\ Edges(dependencies') <= MaxEdges
    /\ caller' = "none"
    /\ ret' = None
    /\ raised' = NoError
    /\ lastOrder' = None
    /\ ClearOrder
    /\ ClearRun
    /\ ClearExecutor
    /\ UNCHANGED pc
    /\ UNCHANGED batchVars
    /\ UNCHANGED textVars

RegisterStage ==
    \E stage \in PipelineStage, deps \in DepLists :
        /\ register_stage(stage, deps)
        /\ lastRegistration' = <<>>

\* The same calls, with the call recorded.
RegisterStageLogged ==
    \E stage \in PipelineStage, deps \in DepLists :
        /\ register_stage(stage, deps)
        /\ lastRegistration' = <<stage, deps, stage.name \in Registered(stages)>>
        /\ Edges(dependencies') <= MaxRegisterEdges

RegisterStageRun ==
    \E stage \in PipelineStage, deps \in DepLists :
        /\ register_stage(stage, deps)
        /\ lastRegistration' = <<>>
        /\ Edges(dependencies') <= MaxRunEdges

\* ---------------------------------------------------------------- get_execution_order
AlreadyVisitedMutNever(stage_name, vis) == FALSE

\* `if stage_name in visited: return`
AlreadyVisited(stage_name, vis) == stage_name \in vis

IsRegisteredMutNoCheck(st, dep) == TRUE

\* `dep not in self.stages`, negated
IsRegistered(st, dep) == dep \in Registered(st)

\* The entry of visit(stage_name): returns at once for a visited stage, else
\* marks it and starts its loop over the dependencies.
EnterVisit(stage_name, stk) ==
    IF AlreadyVisited(stage_name, visited)
    THEN /\ stack' = stk
         /\ UNCHANGED <<visited, expanded>>
    ELSE /\ visited' = visited \cup {stage_name}
         /\ stack' = Append(stk, <<stage_name, 1>>)
         /\ expanded' = [expanded EXCEPT ![stage_name] = @ + 1]

\* The first two statements of get_execution_order.
StartOrder ==
    /\ ClearOrder
    /\ pc' = "order"

\* A caller invokes get_execution_order().
GetExecutionOrder ==
    /\ pc = "idle"
    /\ caller' = "get_execution_order"
    /\ StartOrder
    /\ ret' = None
    /\ raised' = NoError
    /\ ClearRun
    /\ ClearExecutor
    /\ UNCHANGED <<stages, dependencies, lastOrder>>
    /\ lastRegistration' = <<>>
    /\ UNCHANGED batchVars
    /\ UNCHANGED textVars

\* `for stage_name in self.stages: visit(stage_name)`, one iteration.
ForStageName ==
    /\ pc = "order"
    /\ stack = <<>>
    /\ iter <= Len(stages)
    /\ EnterVisit(Keys(stages)[iter], stack)
    /\ iter' = iter + 1
    /\ UNCHANGED <<stages, dependencies, pc, caller, order, runVars, exVars,
                   ret, raised, lastOrder>>
    /\ lastRegistration' = <<>>
    /\ UNCHANGED batchVars
    /\ UNCHANGED textVars

Top == stack[Len(stack)]
Pop(stk) == SubSeq(stk, 1, Len(stk) - 1)

\* `for dep in self.dependencies.get(stage_name, [])`, one iteration that
\* finds the dependency registered and calls visit(dep).
VisitDep ==
    /\ pc = "order"
    /\ stack # <<>>
    /\ Top[2] <= Len(DepsGet(dependencies, Top[1]))
    /\ LET dep == DepsGet(dependencies, Top[1])[Top[2]]
       IN /\ IsRegistered(stages, dep)
          /\ EnterVisit(dep, [stack EXCEPT ![Len(stack)] = <<Top[1], Top[2] + 1>>])
    /\ UNCHANGED <<stages, dependencies, pc, caller, order, iter, runVars, exVars,
                   ret, raised, lastOrder>>
    /\ lastRegistration' = <<>>
    /\ UNCHANGED batchVars
    /\ UNCHANGED textVars

\* The same iteration when `dep not in self.stages`: the ValueError leaves
\* visit, get_execution_order and (when it is the caller) execute_stages.
VisitUnknownDep ==
    /\ pc = "order"
    /\ stack # <<>>
    /\ Top[2] <= Len(DepsGet(dependencies, Top[1]))
    /\ LET dep == DepsGet(dependencies, Top[1])[Top[2]]
       IN /\ ~IsRegistered(stages, dep)
          /\ raised' = UnknownDependency(dep)
    /\ pc' = "done"
    /\ ret' = None
    /\ UNCHANGED <<stages, dependencies, caller, orderVars, runVars, exVars, lastOrder>>
    /\ lastRegistration' = <<>>
    /\ UNCHANGED batchVars
    /\ UNCHANGED textVars

AppendOrderMutPrepend(ord, stage_name) == <<stage_name>> \o ord

\* `order.append(stage_name)` and the return of visit.
AppendOrder(ord, stage_name) == Append(ord, stage_name)

VisitAppend ==
    /\ pc = "order"
    /\ stack # <<>>
    /\ Top[2] > Len(DepsGet(dependencies, Top[1]))
    /\ order' = AppendOrder(order, Top[1])
    /\ stack' = Pop(stack)
    /\ UNCHANGED <<stages, dependencies, pc, caller, visited, iter, expanded,
                   runVars, exVars, ret, raised, lastOrder>>
    /\ lastRegistration' = <<>>
    /\ UNCHANGED batchVars
    /\ UNCHANGED textVars

\* `return order` to an outside caller.
ReturnOrder ==
    /\ pc = "order"
    /\ caller = "get_execution_order"
    /\ stack = <<>>
    /\ iter > Len(stages)
    /\ ret' = order
    /\ pc' = "done"
    /\ UNCHANGED <<stages, dependencies, caller, orderVars, runVars, exVars, raised,
                   lastOrder>>
    /\ lastRegistration' = <<>>
    /\ UNCHANGED batchVars
    /\ UNCHANGED textVars

\* ---------------------------------------------------------------- execute_stages
\* A caller invokes execute_stages(data, context): `result = data`, then the
\* call of get_execution_order() in the head of the for loop.
ExecuteStages ==
    /\ pc = "idle"
    /\ caller' = "execute_stages"
    /\ \E ctx \in Contexts : context' = ctx
    /\ result' = Input
    /\ runIdx' = 1
    /\ ran' = <<>>
    /\ StartOrder
    /\ ClearExecutor
    /\ ret' = None
    /\ raised' = NoError
    /\ lastOrder' = None
    /\ UNCHANGED <<stages, dependencies>>
    /\ lastRegistration' = <<>>
    /\ UNCHANGED batchVars
    /\ UNCHANGED textVars

\* get_execution_order returns its list to the for loop of execute_stages.
ReturnOrderToLoop ==
    /\ pc = "order"
    /\ caller = "execute_stages"
    /\ stack = <<>>
    /\ iter > Len(stages)
    /\ pc' = "for"
    /\ UNCHANGED <<stages, dependencies, caller, orderVars, runVars, exVars,
                   ret, raised, lastOrder>>
    /\ lastRegistration' = <<>>
    /\ UNCHANGED batchVars
    /\ UNCHANGED textVars

\* The argument execute_stages passes as `data` to executor.execute.
ExecutorArg(res, data) == res

\* One iteration of `for stage_name in ...`: build the executor and enter
\* executor.execute(result, context).
ForStage ==
    /\ pc = "for"
    /\ runIdx <= Len(order)
    /\ ran' = Append(ran, order[runIdx])
    /\ exData' = ExecutorArg(result, Input)
    /\ exResult' = None
    /\ exLog' = <<>>
    /\ verdict' = "none"
    /\ pc' = "processor"
    /\ UNCHANGED <<stages, dependencies, caller, orderVars, context, result, runIdx,
                   ret, raised, lastOrder>>
    /\ lastRegistration' = <<>>
    /\ UNCHANGED batchVars
    /\ UNCHANGED textVars

\* `return result` of execute_stages, after the last stage.
ReturnResult ==
    /\ pc = "for"
    /\ runIdx > Len(order)
    /\ ret' = result
    /\ pc' = "done"
    /\ UNCHANGED <<stages, dependencies, caller, orderVars, runVars, exVars,
                   raised, lastOrder>>
    /\ lastRegistration' = <<>>
    /\ UNCHANGED batchVars
    /\ UNCHANGED textVars

\* ---------------------------------------------------------------- StageExecutor.execute
\* self.stage of the executor built in the current iteration.
Stage == StageOf(stages, order[runIdx])

FailMutContinue(cause) ==
    /\ runIdx' = runIdx + 1
    /\ pc' = "for"
    /\ UNCHANGED <<result, ret, raised>>

\* `except Exception as e: raise PipelineStageError(...)`; execute_stages has no
\* handler, so the error leaves it as well.
FailMutUnwrapped(cause) ==
    /\ raised' = <<"Exception", cause>>
    /\ ret' = None
    /\ pc' = "done"
    /\ UNCHANGED <<result, runIdx>>

Fail(cause) ==
    /\ raised' = PipelineStageError(Stage.name, cause)
    /\ ret' = None
    /\ pc' = "done"
    /\ UNCHANGED <<result, runIdx>>

ReturnValueMutNone(res) == None

\* `return result` of execute, assigned to `result` in execute_stages.
ReturnValue(res) == res

Return(res) ==
    /\ result' = ReturnValue(res)
    /\ runIdx' = runIdx + 1
    /\ pc' = "for"
    /\ UNCHANGED <<ret, raised>>

\* `result = await self.stage.processor(data)`
ExProcessor ==
    /\ pc = "processor"
    /\ \/ /\ exResult' = Processor(Stage.name, exData)
          /\ exLog' = Append(exLog, <<"processor", exData, exResult'>>)
          /\ pc' = "validator"
          /\ UNCHANGED <<result, runIdx, ret, raised>>
       \/ /\ exLog' = Append(exLog, <<"processor", exData, "raise">>)
          /\ Fail("processor error")
          /\ UNCHANGED exResult
    /\ UNCHANGED <<stages, dependencies, caller, orderVars, context, ran, exData,
                   verdict, lastOrder>>
    /\ lastRegistration' = <<>>
    /\ UNCHANGED batchVars
    /\ UNCHANGED textVars

\* `if self.stage.recovery:`
HasRecovery(stage) == stage.recovery

\* `if not self.stage.validator(result):` with both branches that follow it
\* short of the recovery call.
ExValidator ==
    /\ pc = "validator"
    /\ \/ /\ verdict' = "true"
          /\ exLog' = Append(exLog, <<"validator", exResult, TRUE>>)
          /\ Return(exResult)
       \/ /\ verdict' = "false"
          /\ exLog' = Append(exLog, <<"validator", exResult, FALSE>>)
          /\ IF HasRecovery(Stage)
             THEN /\ pc' = "recovery"
                  /\ UNCHANGED <<result, runIdx, ret, raised>>
             ELSE Fail("validation failed")
       \/ /\ verdict' = "raise"
          /\ exLog' = Append(exLog, <<"validator", exResult, "raise">>)
          /\ Fail("validator error")
    /\ UNCHANGED <<stages, dependencies, caller, orderVars, context, ran, exData,
                   exResult, lastOrder>>
    /\ lastRegistration' = <<>>
    /\ UNCHANGED batchVars
    /\ UNCHANGED textVars

RecoveryArgsMutData(data, res, ctx) == <<data, ctx>>

\* The arguments of the recovery call.
RecoveryArgs(data, res, ctx) == <<res, ctx>>

\* `result = await self.stage.recovery(result, context)` and `return result`
ExRecovery ==
    /\ pc = "recovery"
    /\ LET args == RecoveryArgs(exData, exResult, context)
       IN \/ /\ exResult' = Recovery(Stage.name, args[1], args[2])
             /\ exLog' = Append(exLog, <<"recovery", args, exResult'>>)
             /\ Return(exResult')
          \/ /\ exLog' = Append(exLog, <<"recovery", args, "raise">>)
             /\ Fail("recovery error")
             /\ UNCHANGED exResult
    /\ UNCHANGED <<stages, dependencies, caller, orderVars, context, ran, exData,
                   verdict, lastOrder>>
    /\ lastRegistration' = <<>>
    /\ UNCHANGED batchVars
    /\ UNCHANGED textVars

\* ---------------------------------------------------------------- the caller
\* The caller takes the outcome of the finished call; the locals of the call
\* are gone.  What get_execution_order returned is remembered for as long as
\* the registry stays as it is.
Finish ==
    /\ pc = "done"
    /\ pc' = "idle"
    /\ caller' = "none"
    /\ lastOrder' = IF caller = "get_execution_order" /\ raised = NoError
                    THEN ret ELSE None
    /\ ret' = None
    /\ raised' = NoError
    /\ ClearOrder
    /\ ClearRun
    /\ ClearExecutor
    /\ UNCHANGED <<stages, dependencies>>
    /\ lastRegistration' = <<>>
    /\ UNCHANGED batchVars
    /\ UNCHANGED textVars

\* ---------------------------------------------------------------- specification
\* StageManager as a whole: registration, ordering and execution.
Next ==
    \/ RegisterStageRun
    \/ GetExecutionOrder
    \/ ForStageName
    \/ VisitDep
    \/ VisitUnknownDep
    \/ VisitAppend
    \/ ReturnOrder
    \/ ExecuteStages
    \/ ReturnOrderToLoop
    \/ ForStage
    \/ ReturnResult
    \/ ExProcessor
    \/ ExValidator
    \/ ExRecovery
    \/ Finish

Spec == Init /\ [][Next]_vars

\* Registration and ordering alone, over larger registries.
NextOrder ==
    \/ RegisterStage
    \/ GetExecutionOrder
    \/ ForStageName
    \/ VisitDep
    \/ VisitUnknownDep
    \/ VisitAppend
    \/ ReturnOrder
    \/ Finish

SpecOrder == Init /\ [][NextOrder]_vars

\* Registration alone, every call recorded.
NextRegister == RegisterStageLogged

SpecRegister == Init /\ [][NextRegister]_vars

\* ================================================================ EnhancedPipeline
\* process_batch, _save_checkpoint and _load_checkpoint of enhanced_pipeline.py.
\* pickle and os are the standard library modules of those names.  A call of
\* self.process_text is an opaque awaitable: it is started, and later it returns
\* a result or raises.  One behaviour is one process_batch call on a pipeline
\* whose checkpoint directory is empty when the call is made.

\* The checkpoint directory passed to the constructor.
Directory == <<"dir">>

\* The batch sizes the callers pass: negative, zero and 1..MaxBatchSize.
BatchSizes == {-1, 0} \cup (1..MaxBatchSize)

\* The input lists: text k is the k-th input.
TextLists == {[k \in 1..L |-> k] : L \in 0..MaxInputs}

\* The resume points a caller asks for: none (-1) or a batch index.
ResumePoints == {-1, 0, 1, 2}

\* The indices handed to _load_checkpoint.
LoadIndices == 0..MaxInputs

\* What the awaited self.process_text(text) returns, and what it raises.
ProcessText(text) == <<"result", text>>
ItemError(text) == <<"error", text>>

\* A file opened with 'wb' and not written yet.
Truncated == <<"truncated">>
\* pickle.load on such a file.
EOFError == <<"EOFError">>
\* A call with a keyword the signature of process_batch does not have.
TypeError == <<"TypeError", "process_batch() got an unexpected keyword argument">>
\* range() with a zero step.
RangeError == <<"ValueError", "range() arg 3 must not be zero">>

Min(a, b) == IF a <= b THEN a ELSE b

\* range(0, stop, step) as a list, step /= 0.
RECURSIVE RangeFrom(_, _, _)
RangeFrom(i, stop, step) ==
    IF i >= stop THEN <<>> ELSE <<i>> \o RangeFrom(i + step, stop, step)

RangeMutAbsStep(stop, step) ==
    IF step > 0 THEN RangeFrom(0, stop, step)
    ELSE IF step < 0 THEN RangeFrom(0, stop, 0 - step) ELSE <<>>

Range(stop, step) == IF step > 0 THEN RangeFrom(0, stop, step) ELSE <<>>

\* s[i:j] for 0 <= i <= j.
Slice(s, i, j) == SubSeq(s, i + 1, Min(j, Len(s)))

\* [texts[i:i + batch_size] for i in range(0, len(texts), batch_size)]
PartitionMutDropsShort(txts, size) ==
    LET r == Range(Len(txts) - (Len(txts) % size), size)
    IN  [k \in 1..Len(r) |-> Slice(txts, r[k], r[k] + size)]

Partition(txts, size) ==
    LET r == Range(Len(txts), size)
    IN  [k \in 1..Len(r) |-> Slice(txts, r[k], r[k] + size)]

\* The batch of the current loop iteration (batch_idx counts from 0).
Batch == batches[batch_idx + 1]

\* The file store with one file written.
Write(fs, idx, content) ==
    [i \in (DOMAIN fs) \cup {idx} |-> IF i = idx THEN content ELSE fs[i]]

\* No _load_checkpoint call has just returned.
NoLoad == loadIdx' = -1 /\ loadRet' = None

InitBatch ==
    /\ NoStages
    /\ texts \in TextLists
    /\ batch_size \in BatchSizes
    /\ parallel \in BOOLEAN
    /\ checkpoint_dir \in {None, Directory}
    /\ resume_from \in ResumePoints
    /\ bpc = "call"
    /\ NoBatchLocals
    /\ NoText

\* results = []; batches = [...]; no process_text call is made yet.
ProcessBatch ==
    /\ bpc = "call"
    /\ resume_from = -1
    /\ results' = <<>>
    /\ tasks' = [k \in DOMAIN texts |-> "pending"]
    /\ IF batch_size = 0
       THEN /\ braised' = RangeError
            /\ bpc' = "raised"
            /\ UNCHANGED batches
       ELSE /\ batches' = Partition(texts, batch_size)
            /\ bpc' = "for"
            /\ UNCHANGED braised
    /\ NoLoad
    /\ UNCHANGED <<texts, resume_from, batch_size, parallel, checkpoint_dir, batch_idx,
                   batch_results, files, bret, started, saved>>
    /\ UNCHANGED stageVars
    /\ UNCHANGED textVars

\* process_batch takes texts, batch_size and parallel only: a call that names a
\* resume point is refused before the body runs.
ProcessBatchResume ==
    /\ bpc = "call"
    /\ resume_from >= 0
    /\ tasks' = [k \in DOMAIN texts |-> "pending"]
    /\ braised' = TypeError
    /\ bpc' = "raised"
    /\ NoLoad
    /\ UNCHANGED <<texts, resume_from, batch_size, parallel, checkpoint_dir, batches,
                   batch_idx, results, batch_results, files, bret, started, saved>>
    /\ UNCHANGED stageVars
    /\ UNCHANGED textVars

\* for batch_idx, batch in enumerate(batches): the next batch.  In parallel mode
\* gather wraps one process_text call per text of the batch into a task; in
\* sequential mode batch_results = [].
ForBatch ==
    /\ bpc = "for"
    /\ batch_idx < Len(batches)
    /\ batch_results' = IF parallel THEN batch_results ELSE <<>>
    /\ bpc' = IF parallel THEN "gather" ELSE "sequential"
    /\ NoLoad
    /\ UNCHANGED <<texts, resume_from, batch_size, parallel, checkpoint_dir, batches, batch_idx,
                   results, tasks, files, bret, braised, started, saved>>
    /\ UNCHANGED stageVars
    /\ UNCHANGED textVars

\* return results
ReturnResults ==
    /\ bpc = "for"
    /\ batch_idx >= Len(batches)
    /\ bret' = results
    /\ bpc' = "returned"
    /\ NoLoad
    /\ UNCHANGED <<texts, resume_from, batch_size, parallel, checkpoint_dir, batches, batch_idx,
                   results, batch_results, tasks, files, braised, started, saved>>
    /\ UNCHANGED stageVars
    /\ UNCHANGED textVars

\* The state of the process_text call of the k-th text of the current batch
\* (the texts of a list are told apart by their position in texts).
TaskOf(k) == tasks[Batch[k]]

\* The process_text call of the k-th text of the batch starts.  The tasks of a
\* gather start in the order they were created and stay scheduled when the
\* gather has raised; the sequential loop starts a call when the one before it
\* has returned.
StartItem(k) ==
    /\ \/ parallel /\ bpc \in {"gather", "raised"}
       \/ ~parallel /\ bpc = "sequential" /\ k = Len(batch_results) + 1
    /\ batch_idx < Len(batches)
    /\ k \in 1..Len(Batch)
    /\ TaskOf(k) = "pending"
    /\ \A j \in 1..(k - 1) : TaskOf(j) # "pending"
    /\ tasks' = [tasks EXCEPT ![Batch[k]] = "running"]
    /\ started' = Append(started, Batch[k])
    /\ NoLoad
    /\ UNCHANGED <<texts, resume_from, batch_size, parallel, checkpoint_dir, bpc, batches,
                   batch_idx, results, batch_results, files, bret, braised, saved>>
    /\ UNCHANGED stageVars
    /\ UNCHANGED textVars

\* The call for text returns its result; the sequential loop appends it to
\* batch_results.
ItemReturns(text) ==
    /\ text \in DOMAIN tasks
    /\ tasks[text] = "running"
    /\ tasks' = [tasks EXCEPT ![text] = "done"]
    /\ batch_results' = IF parallel THEN batch_results
                        ELSE Append(batch_results, ProcessText(text))
    /\ NoLoad
    /\ UNCHANGED <<texts, resume_from, batch_size, parallel, checkpoint_dir, bpc, batches,
                   batch_idx, results, files, bret, braised, started, saved>>
    /\ UNCHANGED stageVars
    /\ UNCHANGED textVars

\* The call for text raises.  Neither the await of the sequential loop nor the
\* gather (no return_exceptions) catches it: it leaves process_batch, unless an
\* earlier one already did.
ItemRaisesMutSavesPartial(text) ==
    /\ text \in DOMAIN tasks
    /\ tasks[text] = "running"
    /\ tasks' = [tasks EXCEPT ![text] = "raised"]
    /\ IF bpc \in {"gather", "sequential"}
       THEN /\ braised' = ItemError(text)
            /\ bpc' = "raised"
            /\ files' = IF Truthy(checkpoint_dir)
                         THEN Write(files, batch_idx, results \o batch_results)
                         ELSE files
       ELSE UNCHANGED <<braised, bpc, files>>
    /\ NoLoad
    /\ UNCHANGED <<texts, resume_from, batch_size, parallel, checkpoint_dir, batches, batch_idx,
                   results, batch_results, bret, started, saved>>
    /\ UNCHANGED stageVars
    /\ UNCHANGED textVars

ItemRaisesMutSwallow(text) ==
    /\ text \in DOMAIN tasks
    /\ tasks[text] = "running"
    /\ tasks' = [tasks EXCEPT ![text] = "raised"]
    /\ batch_results' = IF parallel THEN batch_results
                        ELSE Append(batch_results, ItemError(text))
    /\ NoLoad
    /\ UNCHANGED <<texts, resume_from, batch_size, parallel, checkpoint_dir, bpc, batches,
                   batch_idx, results, files, bret, braised, started, saved>>
    /\ UNCHANGED stageVars
    /\ UNCHANGED textVars

ItemRaises(text) ==
    /\ text \in DOMAIN tasks
    /\ tasks[text] = "running"
    /\ tasks' = [tasks EXCEPT ![text] = "raised"]
    /\ IF bpc \in {"gather", "sequential"}
       THEN braised' = ItemError(text) /\ bpc' = "raised"
       ELSE UNCHANGED <<braised, bpc>>
    /\ NoLoad
    /\ UNCHANGED <<texts, resume_from, batch_size, parallel, checkpoint_dir, batches, batch_idx,
                   results, batch_results, files, bret, started, saved>>
    /\ UNCHANGED stageVars
    /\ UNCHANGED textVars

\* What gather returns: the results in the order of its arguments.
GatherMutCompletionOrder(batch) == [k \in 1..Len(batch) |-> ProcessText(batch[Len(batch) + 1 - k])]

Gather(batch) == [k \in 1..Len(batch) |-> ProcessText(batch[k])]

\* Every task of the gather is done: batch_results = await asyncio.gather(...)
GatherReturnsMutFirstCompleted ==
    /\ bpc = "gather"
    /\ \E k \in 1..Len(Batch) : TaskOf(k) = "done"
    /\ batch_results' = Gather(Batch)
    /\ bpc' = "extend"
    /\ NoLoad
    /\ UNCHANGED <<texts, resume_from, batch_size, parallel, checkpoint_dir, batches, batch_idx,
                   results, tasks, files, bret, braised, started, saved>>
    /\ UNCHANGED stageVars
    /\ UNCHANGED textVars

GatherReturns ==
    /\ bpc = "gather"
    /\ \A k \in 1..Len(Batch) : TaskOf(k) = "done"
    /\ batch_results' = Gather(Batch)
    /\ bpc' = "extend"
    /\ NoLoad
    /\ UNCHANGED <<texts, resume_from, batch_size, parallel, checkpoint_dir, batches, batch_idx,
                   results, tasks, files, bret, braised, started, saved>>
    /\ UNCHANGED stageVars
    /\ UNCHANGED textVars

\* for text in batch: is exhausted.
SequentialDone ==
    /\ bpc = "sequential"
    /\ Len(batch_results) = Len(Batch)
    /\ bpc' = "extend"
    /\ NoLoad
    /\ UNCHANGED <<texts, resume_from, batch_size, parallel, checkpoint_dir, batches, batch_idx,
                   results, batch_results, tasks, files, bret, braised, started,
                   saved>>
    /\ UNCHANGED stageVars
    /\ UNCHANGED textVars

\* results.extend(batch_results); if self.checkpoint_dir:
ExtendMutSkipSave ==
    /\ bpc = "extend"
    /\ results' = results \o batch_results
    /\ bpc' = "for"
    /\ batch_idx' = batch_idx + 1
    /\ NoLoad
    /\ UNCHANGED <<texts, resume_from, batch_size, parallel, checkpoint_dir, batches,
                   batch_results, tasks, files, bret, braised, started, saved>>
    /\ UNCHANGED stageVars
    /\ UNCHANGED textVars

Extend ==
    /\ bpc = "extend"
    /\ results' = results \o batch_results
    /\ IF Truthy(checkpoint_dir)
       THEN bpc' = "save" /\ UNCHANGED batch_idx
       ELSE bpc' = "for" /\ batch_idx' = batch_idx + 1
    /\ NoLoad
    /\ UNCHANGED <<texts, resume_from, batch_size, parallel, checkpoint_dir, batches,
                   batch_results, tasks, files, bret, braised, started, saved>>
    /\ UNCHANGED stageVars
    /\ UNCHANGED textVars

\* What _save_checkpoint is handed: self._save_checkpoint(batch_idx, results)
CheckpointArgMutBatchOnly == batch_results

CheckpointArg == results

\* _save_checkpoint: open(checkpoint_path, 'wb') creates or empties the file.
SaveOpen ==
    /\ bpc = "save"
    /\ files' = Write(files, batch_idx, Truncated)
    /\ bpc' = "dump"
    /\ NoLoad
    /\ UNCHANGED <<texts, resume_from, batch_size, parallel, checkpoint_dir, batches, batch_idx,
                   results, batch_results, tasks, bret, braised, started, saved>>
    /\ UNCHANGED stageVars
    /\ UNCHANGED textVars

\* _save_checkpoint: pickle.dump(results, f) and the end of the with block; the
\* loop goes on to the next batch.
SaveDump ==
    /\ bpc = "dump"
    /\ files' = Write(files, batch_idx, CheckpointArg)
    /\ saved' = Append(saved, batch_idx)
    /\ batch_idx' = batch_idx + 1
    /\ bpc' = "for"
    /\ NoLoad
    /\ UNCHANGED <<texts, resume_from, batch_size, parallel, checkpoint_dir, batches, results,
                   batch_results, tasks, bret, braised, started>>
    /\ UNCHANGED stageVars
    /\ UNCHANGED textVars

\* _load_checkpoint(batch_idx), called by any thread at any time.
LoadValueMutEmptyList(fs, idx) ==
    IF idx \in DOMAIN fs
    THEN IF fs[idx] = Truncated THEN EOFError ELSE fs[idx]
    ELSE <<>>

LoadValue(fs, idx) ==
    IF idx \in DOMAIN fs
    THEN IF fs[idx] = Truncated THEN EOFError ELSE fs[idx]
    ELSE None

LoadCheckpoint(idx) ==
    /\ bpc # "none"
    /\ loadIdx' = idx
    /\ loadRet' = LoadValue(files, idx)
    /\ UNCHANGED <<texts, resume_from, batch_size, parallel, checkpoint_dir, bpc, batches,
                   batch_idx, results, batch_results, tasks, files, bret, braised,
                   started, saved>>
    /\ UNCHANGED stageVars
    /\ UNCHANGED textVars

NextBatch ==
    \/ ProcessBatch
    \/ ProcessBatchResume
    \/ ForBatch
    \/ \E k \in DOMAIN texts : StartItem(k)
    \/ \E text \in DOMAIN tasks : ItemReturns(text)
    \/ \E text \in DOMAIN tasks : ItemRaises(text)
    \/ GatherReturns
    \/ SequentialDone
    \/ Extend
    \/ SaveOpen
    \/ SaveDump
    \/ ReturnResults
    \/ \E idx \in LoadIndices : LoadCheckpoint(idx)

SpecBatch == InitBatch /\ [][NextBatch]_vars

\* ================================================================ ProcessingPipeline
\* ProcessingPipeline.process_text (processing_pipeline.py) down to its first
\* stage, ArabicProcessor.process_text (arabic_processor.py), with
\* Validator.is_valid_arabic (validator.py) and ErrorHandler (error_handler.py).

\* A character is Arabic (U+0600..U+06FF or U+0750..U+077F), Latin, or a space.
Chars == {"arabic", "latin", "space"}

RECURSIVE StringsOfLen(_)
StringsOfLen(n) ==
    IF n = 0 THEN {<<>>}
    ELSE {Append(t, c) : t \in StringsOfLen(n - 1), c \in Chars}

\* The texts handed to process_text.
Strings == UNION {StringsOfLen(n) : n \in 0..MaxTextLen}

\* Validator.is_valid_arabic: a non-empty str in which arabic_pattern is found.
is_valid_arabic(text) == text # <<>> /\ \E i \in 1..Len(text) : text[i] = "arabic"

\* ErrorHandler.handle_processing_error: the error as a value.
ErrorResponse(e) == <<"ErrorResponse", e[1], e[2]>>
ProcessedText(text) == <<"ProcessedText", text>>

InitText ==
    /\ NoStages
    /\ NoBatch
    /\ ptext \in Strings
    /\ ppc = "call"
    /\ pval = None
    /\ pexc = NoError
    /\ pret = None
    /\ praised = NoError

\* ProcessingPipeline.process_text enters its try block and _process_text calls
\* ArabicProcessor.process_text, which validates the input inside its own try.
ValidateInput ==
    /\ ppc = "call"
    /\ IF is_valid_arabic(ptext)
       THEN ppc' = "analyse" /\ UNCHANGED pexc
       ELSE ppc' = "processing_error" /\ pexc' = <<"ValueError", "Invalid Arabic text input">>
    /\ UNCHANGED <<ptext, pval, pret, praised>>
    /\ UNCHANGED stageVars
    /\ UNCHANGED batchVars

\* ArabicProcessor.process_text: normalisation, morphology and features return
\* a ProcessedText, or one of them raises.
Analyse ==
    /\ ppc = "analyse"
    /\ \/ pval' = ProcessedText(ptext) /\ ppc' = "await" /\ UNCHANGED pexc
       \/ pexc' = <<"Exception", "analysis failed">> /\ ppc' = "processing_error" /\ UNCHANGED pval
    /\ UNCHANGED <<ptext, pret, praised>>
    /\ UNCHANGED stageVars
    /\ UNCHANGED batchVars

\* ArabicProcessor.process_text: except Exception as e:
\*     return self.error_handler.handle_processing_error(e)
HandleProcessingError ==
    /\ ppc = "processing_error"
    /\ pval' = ErrorResponse(pexc)
    /\ pexc' = NoError
    /\ ppc' = "await"
    /\ UNCHANGED <<ptext, pret, praised>>
    /\ UNCHANGED stageVars
    /\ UNCHANGED batchVars

\* _process_text: return await self.text_processor.process_text(text).  The
\* callee is a plain function: what it returned is no awaitable.
AwaitValue ==
    /\ ppc = "await"
    /\ pexc' = <<"TypeError", "object can't be used in 'await' expression">>
    /\ ppc' = "pipeline_error"
    /\ UNCHANGED <<ptext, pval, pret, praised>>
    /\ UNCHANGED stageVars
    /\ UNCHANGED batchVars

\* ProcessingPipeline.process_text: except Exception as e:
\*     return self.error_handler.handle_pipeline_error(e)
\* ErrorHandler has no handle_pipeline_error.
HandlePipelineError ==
    /\ ppc = "pipeline_error"
    /\ praised' = <<"AttributeError", "'ErrorHandler' object has no attribute 'handle_pipeline_error'">>
    /\ pret' = None
    /\ ppc' = "done"
    /\ UNCHANGED <<ptext, pval, pexc>>
    /\ UNCHANGED stageVars
    /\ UNCHANGED batchVars

NextText ==
    \/ ValidateInput
    \/ Analyse
    \/ HandleProcessingError
    \/ AwaitValue
    \/ HandlePipelineError

SpecText == InitText /\ [][NextText]_vars

\* ================================================================ properties
\* The registry read as a graph.
RegisteredNames == {stages[i].name : i \in 1..Len(stages)}
RegistrationOrder == [i \in 1..Len(stages) |-> stages[i].name]
DeclaredDeps(s) ==
    IF s \in DOMAIN dependencies
    THEN {dependencies[s][i] : i \in 1..Len(dependencies[s])}
    ELSE {}
DepsOfAll(S) == UNION {DeclaredDeps(s) : s \in S}

RECURSIVE Closure(_)
Closure(S) == LET T == S \cup DepsOfAll(S) IN IF T = S THEN S ELSE Closure(T)

\* Every direct or indirect prerequisite of s.
Prereqs(s) == Closure(DeclaredDeps(s))

HasCycle == \E s \in RegisteredNames : s \in Prereqs(s)
HasUnknownDep == \E s \in RegisteredNames : DeclaredDeps(s) \ RegisteredNames # {}

\* x occurs before y in seq.
Precedes(seq, x, y) ==
    \E i \in 1..Len(seq) : \E j \in (i + 1)..Len(seq) : seq[i] = x /\ seq[j] = y

\* get_execution_order has just finished, by return or by raise.
OrderDone == pc = "done" /\ caller = "get_execution_order"
OrderReturned == OrderDone /\ raised = NoError

\* C1: for an acyclic dependency graph whose prerequisites are all registered,
\* get_execution_order returns a sequence in which every declared prerequisite
\* of every stage appears before the stage.
C1_PrerequisitesFirst ==
    (OrderDone /\ ~HasCycle /\ ~HasUnknownDep) =>
        /\ raised = NoError
        /\ \A s \in RegisteredNames : \A d \in DeclaredDeps(s) : Precedes(ret, d, s)

\* C1 witness: an order was returned for an acyclic registry of three stages
\* in which a stage was registered before one of its prerequisites.
C1_Witness ==
    /\ OrderReturned /\ ~HasCycle /\ ~HasUnknownDep
    /\ Len(stages) = 3
    /\ \E s \in RegisteredNames : \E d \in DeclaredDeps(s) :
           Precedes(RegistrationOrder, s, d)

\* C2 (as claimed): whenever the registered graph contains a cycle, computing
\* the order ends in a CyclicDependencyError, never in a returned order.
C2_CycleRaises ==
    (OrderDone /\ HasCycle /\ ~HasUnknownDep) =>
        (raised # NoError /\ raised[1] = "CyclicDependencyError")

\* The work left to get_execution_order: loop iterations of the outer for,
\* plus, per registered stage, the dependency iterations and the append still
\* to come.
OnStack(n) == \E i \in 1..Len(stack) : stack[i][1] = n
FrameOf(n) == stack[CHOOSE i \in 1..Len(stack) : stack[i][1] = n]
NumDeps(n) == IF n \in DOMAIN dependencies THEN Len(dependencies[n]) ELSE 0
Remaining(n) ==
    IF n \notin visited THEN NumDeps(n) + 1
    ELSE IF OnStack(n) THEN NumDeps(n) + 2 - FrameOf(n)[2]
    ELSE 0

RECURSIVE SumRemaining(_)
SumRemaining(S) ==
    IF S = {} THEN 0
    ELSE LET n == CHOOSE x \in S : TRUE
         IN Remaining(n) + SumRemaining(S \ {n})

Variant == (Len(stages) + 1 - iter) + SumRemaining(RegisteredNames)

\* A step of get_execution_order, its return included.
OrderStep ==
    \/ ForStageName \/ VisitDep \/ VisitUnknownDep \/ VisitAppend
    \/ ReturnOrder \/ ReturnOrderToLoop

\* C3: get_execution_order terminates for every registry, cyclic ones and
\* self-dependencies included: while it runs it always has a next step, every
\* step strictly decreases a natural number, and no stage passes the
\* visited-check of visit more than once.
C3_Terminates ==
    /\ [](pc = "order" => ENABLED OrderStep)
    /\ [][pc = "order" =>
             /\ \A n \in Names : expanded'[n] <= 1
             /\ pc' = "order" => Variant' < Variant]_vars

\* C3 witness: an order computation finished on a registry with a cycle of
\* two stages and a self-dependency.
C3_Witness ==
    /\ OrderDone
    /\ \E s \in RegisteredNames : s \in DeclaredDeps(s)
    /\ \E s \in RegisteredNames : \E t \in DeclaredDeps(s) :
           t # s /\ s \in Prereqs(t)

\* The registry of the example: A (no deps), C (deps A, B), B (deps A),
\* registered in the sequence A, C, B.
ExampleRegistry ==
    /\ RegistrationOrder = <<"A", "C", "B">>
    /\ DOMAIN dependencies = {"B", "C"}
    /\ dependencies["C"] = <<"A", "B">>
    /\ dependencies["B"] = <<"A">>

\* The stages registered no later than s.
UpTo(s) ==
    {RegistrationOrder[j] : j \in {i \in 1..Len(stages) :
        \E k \in i..Len(stages) : RegistrationOrder[k] = s}}

\* C4: the execution order is a function of the registration sequence: a second
\* computation on the same registry returns the same order; a stage precedes
\* every later-registered stage that is no prerequisite of it or of a stage
\* registered before it; and the example registry yields exactly [A, B, C].
C4_Deterministic ==
    OrderReturned =>
        /\ lastOrder # None => ret = lastOrder
        /\ \A s \in RegisteredNames : \A t \in RegisteredNames :
               (/\ Precedes(RegistrationOrder, s, t)
                /\ t \notin UNION {Prereqs(u) : u \in UpTo(s)})
               => Precedes(ret, s, t)
        /\ ExampleRegistry => ret = <<"A", "B", "C">>

\* C4 witness: the example registry, its order computed for the second time.
C4_Witness ==
    /\ OrderReturned
    /\ ExampleRegistry
    /\ lastOrder = <<"A", "B", "C">>

\* C5 (as claimed): a register_stage call for a name that is already
\* registered fails with DuplicateStageError and leaves the stored stage and
\* its dependency list as they were.
C5_DuplicateRejected ==
    [][\A stage \in PipelineStage : \A deps \in DepLists :
          (stage.name \in RegisteredNames /\ register_stage(stage, deps)) =>
              /\ raised' = <<"DuplicateStageError", stage.name>>
              /\ UNCHANGED <<stages, dependencies>>]_vars

\* The exception is the ValueError of an unknown dependency, naming a name
\* that some registered stage declares and that is not registered.
IsUnknownDependencyError(e) ==
    \E s \in RegisteredNames : \E d \in DeclaredDeps(s) \ RegisteredNames :
        e = <<"ValueError", "Unknown dependency", d>>

\* C6: register_stage never fails for an unregistered prerequisite, and
\* get_execution_order raises the unknown-dependency error if and only if some
\* registered stage declares a prerequisite that is not registered then.
C6_UnknownDependency ==
    /\ pc = "idle" => raised = NoError
    /\ OrderDone =>
          /\ HasUnknownDep <=> raised # NoError
          /\ raised # NoError => IsUnknownDependencyError(raised)

\* C6 witness: two stages were registered, one with a prerequisite that never
\* was, and the order computation ended in the error.
C6_Witness ==
    /\ OrderDone
    /\ Len(stages) = 2
    /\ HasUnknownDep
    /\ IsUnknownDependencyError(raised)

\* The stage whose executor ran last, as stored in the registry.
LastRan == ran[Len(ran)]
StoredStage(n) == stages[CHOOSE i \in 1..Len(stages) : stages[i].name = n]

\* execute_stages is in progress or has just finished.
Running == caller = "execute_stages"
\* StageExecutor.execute has returned a value (and no executor was entered since).
ExecuteReturned ==
    /\ Running
    /\ pc \in {"for", "done"}
    /\ verdict \in {"true", "false"}
    /\ raised = NoError

\* C7 (as claimed): when the registered graph has an unknown dependency or a
\* cycle, execute_stages ends in an error and no processor, validator or
\* recovery function is invoked for the input.
C7_FailFast ==
    (Running /\ (HasCycle \/ HasUnknownDep)) =>
        /\ ran = <<>>
        /\ exLog = <<>>
        /\ pc = "done" => raised # NoError

\* C8: when the validator returns true, execute returns exactly the value the
\* processor produced from the executor's data, and recovery is not invoked:
\* the calls of the execution are the processor and the validator, once each.
C8_ValidReturnsRaw ==
    (ExecuteReturned /\ verdict = "true") =>
        /\ Len(exLog) = 2
        /\ exLog[1][1] = "processor" /\ exLog[1][2] = exData
        /\ exLog[2] = <<"validator", exLog[1][3], TRUE>>
        /\ result = exLog[1][3]

\* C8 witness: the second stage of a run, which has a recovery function, has
\* returned after its validator said true.
C8_Witness ==
    /\ ExecuteReturned /\ verdict = "true"
    /\ Len(ran) = 2
    /\ StoredStage(LastRan).recovery

\* C9: when the validator returns false and a recovery function is set,
\* execute calls the recovery function exactly once, with the processor's
\* result and the context, calls the validator no second time, and returns
\* the recovery output as it is.
C9_RecoveryOnce ==
    (ExecuteReturned /\ verdict = "false") =>
        /\ StoredStage(LastRan).recovery
        /\ Len(exLog) = 3
        /\ exLog[1][1] = "processor" /\ exLog[1][2] = exData
        /\ exLog[2] = <<"validator", exLog[1][3], FALSE>>
        /\ exLog[3][1] = "recovery"
        /\ exLog[3][2] = <<exLog[1][3], context>>
        /\ result = exLog[3][3]

\* C9 witness: the second stage of a run has returned its recovery output.
C9_Witness ==
    /\ ExecuteReturned /\ verdict = "false"
    /\ Len(ran) = 2
    /\ result = exLog[3][3]

\* C10 (as claimed): when the validator returns false and the stage has no
\* recovery function, execute fails with a StageValidationError that carries
\* the stage name, a kind other than the PipelineStageError of a processor
\* failure.
C10_ValidationErrorKind ==
    (Running /\ ran # <<>> /\ pc = "done" /\ verdict = "false"
       /\ ~StoredStage(LastRan).recovery) =>
        /\ raised # NoError
        /\ raised[1] = "StageValidationError"
        /\ raised[2] = LastRan

\* The last call made by the current execute().
LastCall == exLog[Len(exLog)]

\* The processor call of the current execute() raised.
ProcessorRaised ==
    Running /\ exLog # <<>> /\ exLog[1] = <<"processor", exData, "raise">>

\* C11: a failure raised by the processor leaves execute as a
\* PipelineStageError that names the stage and carries the cause; no value is
\* returned, and neither validator nor recovery is called after it.
C11_ProcessorFailureWrapped ==
    ProcessorRaised =>
        /\ pc = "done"
        /\ raised = <<"PipelineStageError", LastRan, "processor error">>
        /\ ret = None
        /\ Len(exLog) = 1
        /\ verdict = "none"

\* C11 witness: the processor of the second stage of a run, a stage with a
\* recovery function, raised.
C11_Witness ==
    /\ ProcessorRaised
    /\ Len(ran) = 2
    /\ StoredStage(LastRan).recovery

\* The stages whose execute() has returned in the current run.
Finished == {ran[i] : i \in 1..(runIdx - 1)}

\* C12 (as claimed): execute_stages runs the stages one at a time in the
\* computed order, the input going to the first stage and each returned value
\* to the next; no stage starts before all its declared dependencies have
\* finished; a run that returns has run every registered stage exactly once
\* and returns the last stage's output.
C12_RunsInOrder ==
    (Running /\ pc \in {"for", "processor", "validator", "recovery", "done"}) =>
        /\ ran = SubSeq(order, 1, Len(ran))
        /\ \A i \in 1..Len(ran) : \A d \in DeclaredDeps(ran[i]) :
               \E j \in 1..(i - 1) : ran[j] = d
        /\ pc \in {"processor", "validator", "recovery"} =>
               /\ exData = result
               /\ Len(ran) = 1 => exData = Input
        /\ (pc = "done" /\ raised = NoError) =>
               /\ Len(ran) = Len(stages)
               /\ {ran[i] : i \in 1..Len(ran)} = RegisteredNames
               /\ ret = result
               /\ ran # <<>> => ret = exResult

\* C12 on the registries the claim's last clause can be met on: the same,
\* for an acyclic dependency graph.
C12_Acyclic == ~HasCycle => C12_RunsInOrder

\* execute() of the stage entered last has failed: its last call raised, or
\* its validator said false and the stage has no recovery function.
StageFailed ==
    /\ Running /\ ran # <<>> /\ exLog # <<>>
    /\ \/ LastCall[1] \in {"processor", "recovery"} /\ LastCall[3] = "raise"
       \/ LastCall[1] = "validator" /\ verdict = "raise"
       \/ /\ LastCall[1] = "validator"
          /\ verdict = "false"
          /\ ~StoredStage(LastRan).recovery

\* C13: when a stage fails the run is over: the stages entered are the
\* execution order up to the failing stage and no further, and the caller
\* gets a PipelineStageError naming that stage and no output.
C13_AbortsOnFailure ==
    StageFailed =>
        /\ pc = "done"
        /\ ran = SubSeq(order, 1, Len(ran))
        /\ runIdx = Len(ran)
        /\ raised # NoError
        /\ raised[1] = "PipelineStageError" /\ raised[2] = LastRan
        /\ ret = None

\* C13 witness: the first of three stages failed in its recovery function.
C13_Witness ==
    /\ StageFailed
    /\ Len(order) = 3 /\ Len(ran) = 1
    /\ LastCall[1] = "recovery"

\* C25: whenever get_execution_order returns, the returned sequence is a
\* permutation of the registered stage names: every registered stage occurs
\* exactly once and no other name occurs, with or without dependency cycles.
C25_OrderIsPermutation ==
    OrderReturned =>
        /\ Len(ret) = Cardinality(RegisteredNames)
        /\ {ret[i] : i \in 1..Len(ret)} = RegisteredNames
        /\ \A i \in 1..Len(ret) : \A j \in 1..Len(ret) : ret[i] = ret[j] => i = j

C25_Witness ==
    /\ OrderReturned
    /\ HasCycle
    /\ Len(stages) = 3
    /\ Len(ret) = 3

\* The current execute() ended in a validator exception, a recovery exception,
\* or a failed validation with no recovery function.
ValidatorRaised == LastCall[1] = "validator" /\ verdict = "raise"
RecoveryRaised == LastCall[1] = "recovery" /\ verdict = "false" /\ pc = "done" /\ raised # NoError
ValidationFailed == LastCall[1] = "validator" /\ verdict = "false" /\ ~StoredStage(LastRan).recovery

NoDependencies(deps) == deps = None \/ deps = <<>>
RegistrationMade == Len(lastRegistration) = 3
ReRegistered == RegistrationMade /\ lastRegistration[3]
C28_ReRegistration ==
    [][RegistrationMade' =>
          LET stage == lastRegistration'[1]
              deps == lastRegistration'[2]
          IN  /\ ReRegistered' =>
                    /\ Len(stages') = Len(stages)
                    /\ \A i \in 1..Len(stages) :
                          stages'[i] = IF stages[i].name = stage.name THEN stage ELSE stages[i]
              /\ NoDependencies(deps) => dependencies' = dependencies
              /\ ~NoDependencies(deps) =>
                    /\ dependencies'[stage.name] = deps
                    /\ \A n \in (DOMAIN dependencies) \ {stage.name} :
                          n \in DOMAIN dependencies' /\ dependencies'[n] = dependencies[n]]_vars

C28_Witness ==
    /\ ReRegistered
    /\ lastRegistration[1] = [name |-> "A", recovery |-> TRUE]
    /\ lastRegistration[2] = <<>>
    /\ "A" \in DOMAIN dependencies
    /\ dependencies["A"] = <<"B">>
    /\ StoredStage("A").recovery

\* ---------------------------------------------------------------- process_batch
\* The call read from outside: L inputs, batches of B.
L == Len(texts)
B == batch_size
CeilDiv(a, b) == (a + b - 1) \div b
NumBatches == CeilDiv(L, B)
\* The result of the k-th input, and the batch the k-th input falls in.
Outcome(k) == <<"result", texts[k]>>
BatchOf(k) == (k - 1) \div B
\* The positions of the inputs of batch i, in input order.
FirstOf(i) == i * B + 1
SizeOf(i) == IF (i + 1) * B <= L THEN B ELSE L - i * B
Partitioned == bpc \notin {"none", "call"} /\ B > 0 /\ resume_from = -1
Checkpointing == checkpoint_dir # None
Returned == bpc = "returned"
Written == {saved[j] : j \in 1..Len(saved)}

\* C14: for L inputs and batch_size B > 0 process_batch forms exactly ceil(L/B)
\* consecutive batches, each of at most B texts and only the last one possibly
\* shorter, and, every item succeeding, returns a list of length L whose k-th
\* element is the result of the k-th input, in parallel and in sequential mode.
C14_BatchesAndOrder ==
    Partitioned =>
        /\ Len(batches) = NumBatches
        /\ \A j \in 1..Len(batches) :
              /\ Len(batches[j]) >= 1
              /\ Len(batches[j]) <= B
              /\ j < Len(batches) => Len(batches[j]) = B
              /\ \A k \in 1..Len(batches[j]) : batches[j][k] = texts[(j - 1) * B + k]
        /\ Returned =>
              /\ Len(bret) = L
              /\ \A k \in 1..L : bret[k] = Outcome(k)

C14_Witness ==
    /\ Returned /\ parallel /\ L = 7 /\ B = 3
    /\ Len(batches) = 3 /\ Len(batches[3]) = 1
    /\ bret[7] = Outcome(7)

Loaded == loadIdx >= 0
\* The ordered results of the items of batch i alone.
BatchOutcomes(i) == [k \in 1..SizeOf(i) |-> Outcome(FirstOf(i) + k - 1)]

\* C16: once process_batch with a checkpoint directory has completed batch i
\* (its checkpoint written), loading checkpoint i returns exactly the ordered
\* results of the items of batch i and nothing from any other batch.
C16_CheckpointIsItsBatch ==
    (Loaded /\ Checkpointing /\ loadIdx \in Written) => loadRet = BatchOutcomes(loadIdx)

\* C17: loading a batch index that was never saved returns None, raises no
\* error and leaves the stored checkpoints as they were.
NeverSaved(i) == i \notin Written /\ ~(bpc = "dump" /\ batch_idx = i)
Started == {started[j] : j \in 1..Len(started)}
Complete(i) == i \in DOMAIN files /\ files[i] # Truncated

\* C18: with a checkpoint directory, no item of batch i+1 starts before the
\* checkpoint of batch i is completely written, so checkpoints are written in
\* strictly increasing batch-index order.
C18_CheckpointBeforeNextBatch ==
    Checkpointing =>
        /\ \A k \in Started : \A i \in 0..(BatchOf(k) - 1) : i \in Written /\ Complete(i)
        /\ \A j \in 1..Len(saved) : \A h \in 1..(j - 1) : saved[h] < saved[j]

C18_Witness ==
    /\ Checkpointing /\ parallel /\ B = 2
    /\ saved = <<0, 1>>
    /\ Started = 1..5
    /\ tasks[5] = "running"

\* The inputs whose processing is under way.
InFlight == {k \in DOMAIN tasks : tasks[k] = "running"}

\* C19: at every moment of a process_batch run the in-flight items belong to
\* one batch: in parallel mode at most batch_size items are in flight and all
\* items of a batch are finished before an item of the next batch starts; in
\* sequential mode at most one item is in flight and items start in input order.
C19_OneBatchInFlight ==
    Partitioned =>
        /\ \A k \in InFlight : \A h \in InFlight : BatchOf(k) = BatchOf(h)
        /\ \A k \in Started : \A h \in 1..L : BatchOf(h) < BatchOf(k) => tasks[h] = "done"
        /\ parallel => Cardinality(InFlight) <= B
        /\ ~parallel =>
              /\ Cardinality(InFlight) <= 1
              /\ started = [j \in 1..Len(started) |-> texts[j]]

C19_Witness ==
    /\ parallel /\ bpc = "gather" /\ B = 3 /\ L = 7
    /\ InFlight = {4, 5, 6}
    /\ \A h \in 1..3 : tasks[h] = "done"

\* C20: in a parallel batch the failure of one item does not fail the batch for
\* the others: the batch completes when every item has a result or a recorded
\* error, the siblings' results are kept, and that batch is checkpointed and
\* returned.
SomeItemFailed == \E k \in DOMAIN tasks : tasks[k] = "raised"
C20_FailureIsolated ==
    (parallel /\ SomeItemFailed) =>
        /\ braised = NoError
        /\ bpc # "raised"

\* The run is over: process_batch returned or an exception left it.
RunOver == bpc \in {"returned", "raised"}
Failed == {k \in DOMAIN tasks : tasks[k] = "raised"}
\* An item error left process_batch.
BatchFailed == bpc = "raised" /\ Failed # {}

\* C21: when an item error propagates out of process_batch the run aborts: no
\* checkpoint is written for the failed batch's index or a later one, no item
\* of a later batch is started, and the checkpoints of the earlier batches stay
\* as written.
C21_AbortOnBatchFailure ==
    /\ [](BatchFailed =>
            \A k \in Failed :
               /\ \A i \in DOMAIN files : i < BatchOf(k)
               /\ \A h \in Started : BatchOf(h) <= BatchOf(k)
               /\ Checkpointing => \A i \in 0..(BatchOf(k) - 1) : Complete(i))
    /\ [][BatchFailed => (files' = files /\ saved' = saved /\ bpc' = "raised")]_vars

C21_Witness ==
    /\ BatchFailed /\ Checkpointing /\ parallel /\ B = 2 /\ L = 4
    /\ Failed = {3}
    /\ tasks[4] = "done"
    /\ DOMAIN files = {0}

\* A record as _save_checkpoint writes it for this run: a list of results.
IsRecord(v) == \E n \in 1..L : [k \in 1..n |-> Outcome(k)] = v

\* C22: a load of index i that runs while index i is being saved sees the
\* complete previous state (absent, or the old record) or the complete new
\* record, never a partly written one.
C22_AtomicSave == Loaded => (loadRet = None \/ IsRecord(loadRet))

\* C23: a run with resume point k skips the batches below k (their items are
\* not processed again) and produces for every batch >= k the results a fresh
\* full run produces for it.
C23_ResumeSkipsPrefix ==
    (resume_from >= 0 /\ B > 0 /\ RunOver /\ Failed = {}) =>
        /\ Returned
        /\ \A k \in Started : BatchOf(k) >= resume_from
        /\ \A k \in 1..L : BatchOf(k) >= resume_from =>
              /\ k \in Started
              /\ \E j \in 1..Len(bret) : bret[j] = Outcome(k)

\* The accumulated result list of batches 0..i.
Accumulated(i) == [k \in 1..(IF (i + 1) * B <= L THEN (i + 1) * B ELSE L) |-> Outcome(k)]

\* C26: after every checkpointed batch i the record under index i is the
\* accumulated result list of batches 0..i; so each checkpoint is a prefix of
\* the next one and the last checkpoint equals the list process_batch returns.
C26_CheckpointIsAccumulated ==
    Checkpointing =>
        /\ \A i \in Written : files[i] = Accumulated(i)
        /\ \A i \in Written : (i + 1) \in Written =>
              /\ Len(files[i]) < Len(files[i + 1])
              /\ files[i] = SubSeq(files[i + 1], 1, Len(files[i]))
        /\ (Returned /\ saved # <<>>) => files[saved[Len(saved)]] = bret

C26_Witness ==
    /\ Returned /\ Checkpointing /\ L = 5 /\ B = 2
    /\ Written = {0, 1, 2}
    /\ Len(files[0]) = 2 /\ Len(files[1]) = 4
    /\ files[2] = bret /\ Len(bret) = 5

\* C29: in sequential mode, once an item's processing raises, no later item of
\* the batch and no item of a later batch is ever started, and the results of
\* the earlier items of the failed batch are neither returned nor checkpointed.
C29_SequentialStopsAtFailure ==
    /\ []((~parallel /\ Failed # {}) =>
            /\ bret = None
            /\ \A k \in Failed :
                  /\ \A h \in Started : h <= k
                  /\ \A i \in DOMAIN files : files[i] # Truncated =>
                        \A j \in 1..Len(files[i]) : \A h \in 1..L :
                           files[i][j] = Outcome(h) => BatchOf(h) < BatchOf(k))
    /\ [][(~parallel /\ Failed # {}) => (started' = started /\ files' = files /\ bret' = None)]_vars

C29_Witness ==
    /\ ~parallel /\ Checkpointing /\ B = 3 /\ L = 7
    /\ Failed = {5}
    /\ Started = 1..5
    /\ batch_results = <<Outcome(4)>>
    /\ DOMAIN files = {0}
    /\ bpc = "raised"

\* C30: with batch_size <= 0 process_batch never processes an item and never
\* writes a checkpoint: a negative batch_size gives zero batches and an empty
\* result list for any inputs, and batch_size = 0 fails with an error while the
\* partition is built, before any item is started.
C30_NonPositiveBatchSize ==
    (B <= 0 /\ resume_from = -1) =>
        /\ started = <<>>
        /\ DOMAIN files = {}
        /\ \A k \in DOMAIN tasks : tasks[k] = "pending"
        /\ (B < 0 /\ bpc # "call") =>
              /\ batches = <<>>
              /\ braised = NoError
              /\ bpc \in {"for", "returned"}
              /\ Returned => bret = <<>>
        /\ (B = 0 /\ bpc # "call") =>
              /\ bpc = "raised"
              /\ braised[1] = "ValueError"
              /\ bret = None

C30_Witness ==
    /\ B < 0 /\ L = 7 /\ Checkpointing /\ resume_from = -1
    /\ Returned /\ bret = <<>>

\* ---------------------------------------------------------------- process_text
\* The text is empty or holds no Arabic character.
NotArabic == ptext = <<>> \/ \A i \in 1..Len(ptext) : ptext[i] # "arabic"

\* C24: ProcessingPipeline.process_text raises ValueError to its caller when the
\* text is empty or contains no Arabic character; it returns neither a normal
\* value nor an error response then.
C24_InvalidTextRaisesValueError ==
    (ppc = "done" /\ NotArabic) =>
        /\ praised # NoError
        /\ praised[1] = "ValueError"
        /\ pret = None

====
